---- MODULE Spec2Model ----
(***************************************************************************)
(* Model of src/qr_code/qr-security-checker.py: the URL risk-analysis      *)
(* pipeline analyze_content with its helpers is_shortlink,                  *)
(* safely_resolve_url, contains_homoglyphs, detect_homograph_attack and     *)
(* analyze_redirect_chain.                                                  *)
(*                                                                         *)
(* Text is a sequence of fragments.  URL text is spelled one code point    *)
(* per fragment ("h","t","t","p",...), a non-ASCII code point is the        *)
(* fragment "U+XXXX", and the fixed part of a message is one fragment.      *)
(* Python's None is the one-fragment text None, which no text of the        *)
(* program equals.                                                          *)
(***************************************************************************)
EXTENDS Integers, Sequences, FiniteSets, TLC

None == <<"<None>">>

\* A local that holds a list of texts, before its first assignment
NoList == <<None>>

\* domain_info before its first assignment
NoInfo == [subdomain |-> None, domain |-> None, suffix |-> None]

\* Python truthiness of an Optional[str]: None and "" are falsy.
Truthy(s) == s # None /\ s # <<>>

----------------------------------------------------------------------------
(* Python str primitives *)

\* s[i:j] with 1-based inclusive bounds
Slice(s, i, j) == IF i > j THEN <<>> ELSE SubSeq(s, i, j)

\* s.startswith(p)
startswith(s, p) == Len(s) >= Len(p) /\ SubSeq(s, 1, Len(p)) = p

\* s.endswith(p)
endswith(s, p) == Len(s) >= Len(p) /\ SubSeq(s, Len(s) - Len(p) + 1, Len(s)) = p

\* sub in s
str_in(sub, s) == \E i \in 1..(Len(s) - Len(sub) + 1) : SubSeq(s, i, i + Len(sub) - 1) = sub

\* s.find(sub), 1-based; 0 when absent (Python: 0-based, -1 when absent)
str_find(s, sub) ==
    IF str_in(sub, s)
    THEN CHOOSE i \in 1..(Len(s) - Len(sub) + 1) :
            /\ SubSeq(s, i, i + Len(sub) - 1) = sub
            /\ \A j \in 1..(i - 1) : SubSeq(s, j, j + Len(sub) - 1) # sub
    ELSE 0

\* s.partition(c)[0] for a one-character separator
before(s, c) == IF str_in(<<c>>, s) THEN Slice(s, 1, str_find(s, <<c>>) - 1) ELSE s

\* s.rpartition(c)[-1] for a one-character separator
RECURSIVE after_last(_, _)
after_last(s, c) ==
    IF str_in(<<c>>, s) THEN after_last(Slice(s, str_find(s, <<c>>) + 1, Len(s)), c) ELSE s

\* s.rstrip(c) for one character
RECURSIVE rstrip(_, _)
rstrip(s, c) == IF s # <<>> /\ s[Len(s)] = c THEN rstrip(Slice(s, 1, Len(s) - 1), c) ELSE s

\* s.split(c): a sequence of texts; ''.split('.') is ['']
RECURSIVE str_split(_, _)
str_split(s, c) ==
    IF str_in(<<c>>, s)
    THEN <<Slice(s, 1, str_find(s, <<c>>) - 1)>>
            \o str_split(Slice(s, str_find(s, <<c>>) + 1, Len(s)), c)
    ELSE <<s>>

\* sep.join(parts)
RECURSIVE str_join(_, _)
str_join(sep, parts) ==
    IF parts = <<>> THEN <<>>
    ELSE IF Len(parts) = 1 THEN parts[1]
    ELSE parts[1] \o sep \o str_join(sep, Tail(parts))

ascii_lowercase == <<"a", "b", "c", "d", "e", "f", "g", "h", "i", "j", "k", "l", "m",
                     "n", "o", "p", "q", "r", "s", "t", "u", "v", "w", "x", "y", "z">>
ascii_uppercase == <<"A", "B", "C", "D", "E", "F", "G", "H", "I", "J", "K", "L", "M",
                     "N", "O", "P", "Q", "R", "S", "T", "U", "V", "W", "X", "Y", "Z">>
digits == <<"0", "1", "2", "3", "4", "5", "6", "7", "8", "9">>

Range(s) == {s[i] : i \in 1..Len(s)}

\* c.lower() for one character (ASCII letters fold, everything else is kept)
lower_char(c) ==
    IF c \in Range(ascii_uppercase)
    THEN ascii_lowercase[CHOOSE i \in 1..26 : ascii_uppercase[i] = c]
    ELSE c

\* s.lower()
str_lower(s) == [i \in 1..Len(s) |-> lower_char(s[i])]

\* Printable ASCII, code points 32..126, in order: chr(31 + i) is printable[i]
\* (the quote, backslash and backtick are spelled by code point).
printable == <<" ", "!", "U+0022", "#", "$", "%", "&", "'", "(", ")", "*", "+", ",", "-", ".", "/">>
             \o digits \o <<":", ";", "<", "=", ">", "?", "@">>
             \o ascii_uppercase \o <<"[", "U+005C", "]", "^", "_", "U+0060">>
             \o ascii_lowercase \o <<"{", "|", "}", "~">>

\* The decoded text of one byte.  A byte outside printable ASCII (a control
\* character, or part of a multi-byte UTF-8 sequence) is one opaque fragment.
chr_byte(n) == IF n >= 32 /\ n <= 126 THEN printable[n - 31] ELSE "<byte>"

hexdigits == digits \o <<"a", "b", "c", "d", "e", "f">>

is_hex(c) == lower_char(c) \in Range(hexdigits)

hex_value(c) == (CHOOSE i \in 1..16 : hexdigits[i] = lower_char(c)) - 1

----------------------------------------------------------------------------
(* urllib.parse *)

\* urllib.parse.scheme_chars
scheme_chars == Range(ascii_lowercase) \cup Range(ascii_uppercase) \cup Range(digits)
                    \cup {"+", "-", "."}

\* The scheme urlsplit finds: the text before the first ':' when it starts
\* with a letter and holds scheme characters only; otherwise "".
url_scheme(url) ==
    LET i == str_find(url, <<":">>) IN
    IF /\ i > 1
       /\ url[1] \in Range(ascii_lowercase) \cup Range(ascii_uppercase)
       /\ \A k \in 1..(i - 1) : url[k] \in scheme_chars
    THEN str_lower(Slice(url, 1, i - 1))
    ELSE <<>>

\* The index of the first of '/', '?', '#' at or after position from; Len+1 if none
first_delim(url, from) ==
    IF \E k \in from..Len(url) : url[k] \in {"/", "?", "#"}
    THEN CHOOSE k \in from..Len(url) :
            /\ url[k] \in {"/", "?", "#"}
            /\ \A j \in from..(k - 1) : url[j] \notin {"/", "?", "#"}
    ELSE Len(url) + 1

\* urllib.parse.urlparse(url): scheme, netloc and the rest up to the query
\* or fragment; exc is the ValueError urlsplit raises for a netloc with an
\* unbalanced square bracket, None when it returns.
urlparse(url) ==
    LET scheme == url_scheme(url)
        rest   == IF scheme = <<>> THEN url ELSE Slice(url, Len(scheme) + 2, Len(url))
        has_nl == startswith(rest, <<"/", "/">>)
        d      == first_delim(rest, 3)
        netloc == IF has_nl THEN Slice(rest, 3, d - 1) ELSE <<>>
        tail   == IF has_nl THEN Slice(rest, d, Len(rest)) ELSE rest
        q      == IF \E k \in 1..Len(tail) : tail[k] \in {"?", "#"}
                  THEN (CHOOSE k \in 1..Len(tail) :
                            /\ tail[k] \in {"?", "#"}
                            /\ \A j \in 1..(k - 1) : tail[j] \notin {"?", "#"}) - 1
                  ELSE Len(tail)
    IN  [scheme |-> scheme,
         netloc |-> netloc,
         path   |-> Slice(tail, 1, q),
         exc    |-> IF str_in(<<"[">>, netloc) # str_in(<<"]">>, netloc)
                    THEN <<"Invalid IPv6 URL">> ELSE None]

\* urllib.parse.unquote(s): every %XX with two hex digits becomes the byte's
\* character; any other text is kept.
RECURSIVE unquote(_)
unquote(s) ==
    IF s = <<>> THEN <<>>
    ELSE IF s[1] = "%" /\ Len(s) >= 3 /\ is_hex(s[2]) /\ is_hex(s[3])
    THEN <<chr_byte(16 * hex_value(s[2]) + hex_value(s[3]))>> \o unquote(Slice(s, 4, Len(s)))
    ELSE <<s[1]>> \o unquote(Tail(s))

\* The ValueError urljoin(base, ref) raises (it parses both), None if none
urljoin_exc(base, ref) ==
    IF urlparse(base).exc # None THEN urlparse(base).exc ELSE urlparse(ref).exc

\* urllib.parse.urljoin(base, ref): ref itself when it has a scheme, the
\* base's scheme and netloc before a ref that starts with '/', else ref in
\* place of the last segment of the base's path.
urljoin(base, ref) ==
    LET b == urlparse(base) IN
    IF url_scheme(ref) # <<>> THEN ref
    ELSE IF startswith(ref, <<"/", "/">>) THEN b.scheme \o <<":">> \o ref
    ELSE LET origin == b.scheme \o <<":", "/", "/">> \o b.netloc
             dir    == IF str_in(<<"/">>, b.path)
                       THEN Slice(b.path, 1, Len(b.path) - Len(after_last(b.path, "/")))
                       ELSE <<"/">>
         IN  IF startswith(ref, <<"/">>) THEN origin \o ref ELSE origin \o dir \o ref

----------------------------------------------------------------------------
(* Static configuration *)

\* Known URL shortener domains
url_shorteners ==
    { <<"b", "i", "t", ".", "l", "y">>,
      <<"t", "i", "n", "y", "u", "r", "l", ".", "c", "o", "m">>,
      <<"t", ".", "c", "o">>,
      <<"g", "o", "o", ".", "g", "l">>,
      <<"t", "i", "n", "y", ".", "c", "c">>,
      <<"o", "w", ".", "l", "y">>,
      <<"i", "s", ".", "g", "d">>,
      <<"b", "u", "f", "f", ".", "l", "y">>,
      <<"a", "d", "f", ".", "l", "y">>,
      <<"b", "i", "t", "l", "y", ".", "c", "o", "m">>,
      <<"r", "e", "b", "r", "a", "n", "d", ".", "l", "y">>,
      <<"c", "u", "t", "t", ".", "l", "y">>,
      <<"s", "h", "o", "r", "t", "u", "r", "l", ".", "a", "t">>,
      <<"t", "i", "n", "y", ".", "o", "n", "e">>,
      <<"r", "o", "t", "f", ".", "l", "o", "l">>,
      <<"s", "h", "o", "r", "t", "u", "r", "l", ".", "a", "s", "i", "a">> }

\* One entry of suspicious_patterns: src is the pattern as written (and as
\* it is reported), text the literal it searches for, icase whether it is
\* case-insensitive ((?i)), at_end whether it is anchored at the end ($).
Pattern(src, text, icase, at_end) ==
    [src |-> src, text |-> text, icase |-> icase, at_end |-> at_end]

\* Common malicious patterns, in list order
suspicious_patterns ==
    << Pattern("(?i)\\.exe$", <<".", "e", "x", "e">>, TRUE, TRUE),
       Pattern("(?i)\\.bat$", <<".", "b", "a", "t">>, TRUE, TRUE),
       Pattern("(?i)\\.ps1$", <<".", "p", "s", "1">>, TRUE, TRUE),
       Pattern("(?i)phish", <<"p", "h", "i", "s", "h">>, TRUE, FALSE),
       Pattern("(?i)login", <<"l", "o", "g", "i", "n">>, TRUE, FALSE),
       Pattern("(?i)password", <<"p", "a", "s", "s", "w", "o", "r", "d">>, TRUE, FALSE),
       Pattern("(?i)bank", <<"b", "a", "n", "k">>, TRUE, FALSE),
       Pattern("(?i)wallet", <<"w", "a", "l", "l", "e", "t">>, TRUE, FALSE),
       Pattern("data:text/html", <<"d", "a", "t", "a", ":", "t", "e", "x", "t", "/", "h", "t", "m", "l">>, FALSE, FALSE),
       Pattern("javascript:", <<"j", "a", "v", "a", "s", "c", "r", "i", "p", "t", ":">>, FALSE, FALSE) >>

\* Known safe domains
safe_domains ==
    { <<"g", "o", "o", "g", "l", "e", ".", "c", "o", "m">>,
      <<"m", "i", "c", "r", "o", "s", "o", "f", "t", ".", "c", "o", "m">>,
      <<"a", "p", "p", "l", "e", ".", "c", "o", "m">>,
      <<"a", "m", "a", "z", "o", "n", ".", "c", "o", "m">>,
      <<"g", "i", "t", "h", "u", "b", ".", "c", "o", "m">> }

\* homoglyph_map: each Latin letter with its look-alikes.  U+0430.. are the
\* Cyrillic letters of the source; the look-alike of 'i' and 'l' listed
\* second is the ASCII digit one.
homoglyph_map ==
    << <<"a", <<"U+0430">> >>, <<"b", <<"U+042C", "U+0431">> >>, <<"c", <<"U+0441">> >>,
       <<"e", <<"U+0435">> >>, <<"h", <<"U+043D">> >>, <<"i", <<"U+0456", "1">> >>,
       <<"l", <<"U+0456", "1">> >>, <<"o", <<"U+043E">> >>, <<"p", <<"U+0440">> >>,
       <<"s", <<"U+0455">> >>, <<"t", <<"U+0442">> >>, <<"x", <<"U+0445">> >>,
       <<"y", <<"U+0443">> >>, <<"z", <<"U+0455">> >> >>

\* max_redirects, the default of safely_resolve_url's second parameter
max_redirects == 5

\* The status codes safely_resolve_url follows
redirect_codes == {301, 302, 303, 307, 308}

----------------------------------------------------------------------------
(* tldextract and idna *)

\* The public suffixes the extractor knows here: those of the configured
\* domains, and ru, uk and co.uk.  Each is its sequence of labels.
public_suffixes ==
    { <<<<"c", "o", "m">>>>, <<<<"l", "y">>>>, <<<<"c", "o">>>>, <<<<"g", "l">>>>,
      <<<<"c", "c">>>>, <<<<"g", "d">>>>, <<<<"a", "t">>>>, <<<<"o", "n", "e">>>>,
      <<<<"l", "o", "l">>>>, <<<<"a", "s", "i", "a">>>>, <<<<"r", "u">>>>, <<<<"u", "k">>>>,
      <<<<"c", "o">>, <<"u", "k">>>> }

\* tldextract's _schemeless_url: the text after a leading "//" or after
\* "scheme://"; the url itself when it has neither.
schemeless_url(url) ==
    LET ds == str_find(url, <<"/", "/">>) IN
    IF ds = 1 THEN Slice(url, 3, Len(url))
    ELSE IF \/ ds < 3
            \/ url[ds - 1] # ":"
            \/ \E k \in 1..(ds - 2) : url[k] \notin scheme_chars
    THEN url
    ELSE Slice(url, ds + 2, Len(url))

\* tldextract's lenient_netloc: the host name, without scheme, path, query,
\* fragment, user info, port and trailing dots.
lenient_netloc(url) ==
    LET after_userinfo ==
            after_last(before(before(before(schemeless_url(url), "/"), "?"), "#"), "@")
    IN  IF after_userinfo # <<>> /\ after_userinfo[1] = "[" /\ str_in(<<"]">>, after_userinfo)
        THEN before(after_userinfo, "]") \o <<"]">>
        ELSE rstrip(before(after_userinfo, ":"), ".")

\* labels, each lower-cased
str_lower_labels(labels) == [k \in 1..Len(labels) |-> str_lower(labels[k])]

\* The number of labels before the public suffix: the longest run of final
\* labels that is a public suffix; all labels when none is.
suffix_index(labels) ==
    LET n == Len(labels)
        starts == {j \in 0..(n - 1) : str_lower_labels(SubSeq(labels, j + 1, n)) \in public_suffixes}
    IN  IF starts = {} THEN n ELSE CHOOSE j \in starts : \A k \in starts : j <= k

\* tldextract.extract(url): subdomain, domain and suffix of the host.
\* (None has no text operations: the call raises, see Classify.)
tldextract_extract(url) ==
    LET labels == str_split(lenient_netloc(url), ".")
        si     == suffix_index(labels)
    IN  [subdomain |-> IF si >= 2 THEN str_join(<<".">>, SubSeq(labels, 1, si - 1)) ELSE <<>>,
         domain    |-> IF si >= 1 THEN labels[si] ELSE <<>>,
         suffix    |-> str_join(<<".">>, SubSeq(labels, si + 1, Len(labels)))]

\* ExtractResult.registered_domain
registered_domain(info) ==
    IF info.suffix # <<>> /\ info.domain # <<>>
    THEN info.domain \o <<".">> \o info.suffix
    ELSE <<>>

\* The punycode the decoder is given here: the A-label xn--pple-43d is
\* U+0430 "pple" (Cyrillic a, then Latin pple).
punycode == [ace |-> <<"p", "p", "l", "e", "-", "4", "3", "d">>, unicode |-> <<"U+0430", "p", "p", "l", "e">>]

\* idna's ulabel on one label: an A-label (xn--...) is decoded, any other
\* label is returned (ASCII lower-cased); None stands for IDNAError.
ulabel(label) ==
    LET l == str_lower(label) IN
    IF label = <<>> THEN None
    ELSE IF startswith(l, <<"x", "n", "-", "-">>)
    THEN IF Slice(l, 5, Len(l)) = punycode.ace THEN punycode.unicode ELSE None
    ELSE l

\* idna.decode(domain); None stands for IDNAError
idna_decode(domain) ==
    LET parts  == str_split(domain, ".")
        labels == IF parts[Len(parts)] = <<>> THEN SubSeq(parts, 1, Len(parts) - 1) ELSE parts
        dot    == IF parts[Len(parts)] = <<>> THEN <<".">> ELSE <<>>
    IN  IF domain = <<>> \/ \E k \in 1..Len(labels) : ulabel(labels[k]) = None
        THEN None
        ELSE str_join(<<".">>, [k \in 1..Len(labels) |-> ulabel(labels[k])]) \o dot

----------------------------------------------------------------------------
(* Severity and messages *)

LOW     == <<"L", "O", "W">>
MEDIUM  == <<"M", "E", "D", "I", "U", "M">>
HIGH    == <<"H", "I", "G", "H">>
UNKNOWN == <<"U", "N", "K", "N", "O", "W", "N">>

\* ord(c) of a printable ASCII character
ord(c) == 31 + CHOOSE i \in 1..Len(printable) : printable[i] = c

\* a < b for Python str: code point by code point, a proper prefix is less
RECURSIVE str_less(_, _)
str_less(a, b) ==
    IF b = <<>> THEN FALSE
    ELSE IF a = <<>> THEN TRUE
    ELSE IF a[1] = b[1] THEN str_less(Tail(a), Tail(b))
    ELSE ord(a[1]) < ord(b[1])

\* (mutant of py_max: min in place of max)
py_min(a, b) == IF str_less(b, a) THEN b ELSE a

\* max(a, b) of two Python str: the first argument unless the second is greater
py_max(a, b) == IF str_less(a, b) THEN b ELSE a

\* str(n) for n >= 0
RECURSIVE str_int(_)
str_int(n) == IF n < 10 THEN <<digits[n + 1]>> ELSE str_int(n \div 10) \o <<digits[(n % 10) + 1]>>

\* The distinct elements of a sequence, in order of first occurrence
RECURSIVE distinct(_)
distinct(xs) ==
    IF xs = <<>> THEN <<>>
    ELSE LET front == SubSeq(xs, 1, Len(xs) - 1)
             last  == xs[Len(xs)]
         IN  IF \E i \in 1..Len(front) : front[i] = last
             THEN distinct(front)
             ELSE Append(distinct(front), last)

----------------------------------------------------------------------------
(* The checks *)

\* (mutant of is_shortlink: a shortener name anywhere in the url counts)
is_shortlink_substring(url) == \E s \in url_shorteners : str_in(s, url)

\* is_shortlink(url).  (Its bare except returns False; the extractor raises
\* for no text.)
is_shortlink(url) == registered_domain(tldextract_extract(url)) \in url_shorteners

\* (mutant of contains_homoglyphs: only the first look-alike of a letter is
\* looked for)
contains_homoglyphs_first_only(url) ==
    \E k \in 1..Len(homoglyph_map) :
        LET char       == homoglyph_map[k][1]
            homoglyphs == homoglyph_map[k][2]
        IN  str_in(<<homoglyphs[1]>>, url) /\ homoglyphs[1] # char

\* contains_homoglyphs(url): some look-alike of homoglyph_map occurs in url.
\* (normalized_url is computed and never read.)
contains_homoglyphs(url) ==
    \E k \in 1..Len(homoglyph_map) :
        LET char       == homoglyph_map[k][1]
            homoglyphs == homoglyph_map[k][2]
        IN  \E j \in 1..Len(homoglyphs) :
                str_in(<<homoglyphs[j]>>, url) /\ homoglyphs[j] # char

\* detect_homograph_attack(domain)
detect_homograph_attack(domain) ==
    LET domain_unicode == IF idna_decode(domain) = None THEN domain ELSE idna_decode(domain)
    IN  contains_homoglyphs(domain_unicode)

\* re.search(pattern, content) is not None, for the patterns of
\* suspicious_patterns (the text has no newline before its end)
re_search(pattern, content) ==
    LET subject == IF pattern.icase THEN str_lower(content) ELSE content
        literal == IF pattern.icase THEN str_lower(pattern.text) ELSE pattern.text
    IN  IF pattern.at_end THEN endswith(subject, literal) ELSE str_in(literal, subject)

\* The entries the loop over suspicious_patterns appends, in list order
RECURSIVE pattern_risks(_, _)
pattern_risks(patterns, content) ==
    IF patterns = <<>> THEN <<>>
    ELSE (IF re_search(patterns[1], content)
          THEN << <<"Suspicious pattern found: ", patterns[1].src>> >>
          ELSE <<>>)
         \o pattern_risks(Tail(patterns), content)

\* (mutant of analyze_redirect_chain: the rules exclude one another, if/elif)
analyze_redirect_chain_elif(redirect_chain) ==
    LET n         == Len(redirect_chain)
        has_http  == \E i \in 1..n : startswith(redirect_chain[i], <<"h", "t", "t", "p", ":", "/", "/">>)
        has_https == \E i \in 1..n : startswith(redirect_chain[i], <<"h", "t", "t", "p", "s", ":", "/", "/">>)
        domains   == [i \in 1..n |-> tldextract_extract(redirect_chain[i]).suffix]
    IN  IF n > 3
        THEN << <<"Suspicious number of redirects: ">> \o str_int(n) >>
        ELSE IF has_http /\ has_https
        THEN << <<"Mixed HTTP/HTTPS redirects detected">> >>
        ELSE IF Cardinality(Range(domains)) > 2
        THEN << <<"Multiple country domains in redirect chain: ">>
                    \o str_join(<<",", " ">>, distinct(domains)) >>
        ELSE <<>>

\* analyze_redirect_chain(redirect_chain): the list of findings.  The
\* suffixes of the third finding are joined in order of first occurrence
\* (Python joins them in the iteration order of a set).
analyze_redirect_chain(redirect_chain) ==
    LET n         == Len(redirect_chain)
        has_http  == \E i \in 1..n : startswith(redirect_chain[i], <<"h", "t", "t", "p", ":", "/", "/">>)
        has_https == \E i \in 1..n : startswith(redirect_chain[i], <<"h", "t", "t", "p", "s", ":", "/", "/">>)
        domains   == [i \in 1..n |-> tldextract_extract(redirect_chain[i]).suffix]
    IN  (IF n > 3
         THEN << <<"Suspicious number of redirects: ">> \o str_int(n) >>
         ELSE <<>>)
        \o (IF has_http /\ has_https
            THEN << <<"Mixed HTTP/HTTPS redirects detected">> >>
            ELSE <<>>)
        \o (IF Cardinality(Range(domains)) > 2
            THEN << <<"Multiple country domains in redirect chain: ">>
                        \o str_join(<<",", " ">>, distinct(domains)) >>
            ELSE <<>>)

\* (mutant of recommendation: MEDIUM is let through)
recommendation_lenient(risk_level) == IF risk_level = HIGH THEN "BLOCK" ELSE "ALLOW"

\* "BLOCK" if risk_level == "HIGH" else "WARN" if risk_level == "MEDIUM" else "ALLOW"
recommendation(risk_level) ==
    IF risk_level = HIGH THEN "BLOCK" ELSE IF risk_level = MEDIUM THEN "WARN" ELSE "ALLOW"

\* The dictionary analyze_content returns
analysis_result(content, risk_level, risks) ==
    [content        |-> content,
     risk_level     |-> risk_level,
     risks          |-> risks,
     is_malicious   |-> (risk_level = HIGH),
     recommendation |-> recommendation(risk_level)]

----------------------------------------------------------------------------
(* The decoded QR payloads analysed, and what the remote hosts answer *)

https_    == <<"h", "t", "t", "p", "s", ":", "/", "/">>
http_     == <<"h", "t", "t", "p", ":", "/", "/">>
github    == <<"g", "i", "t", "h", "u", "b", ".", "c", "o", "m">>
bitly     == <<"b", "i", "t", ".", "l", "y">>
apple_ace == <<"x", "n", "-", "-", "p", "p", "l", "e", "-", "4", "3", "d", ".", "c", "o", "m">>
apple_cyr == <<"U+0430">> \o <<"p", "p", "l", "e", ".", "c", "o", "m">>

Contents ==
    { https_ \o github \o <<"/", "f", "o", "o">>,
      https_ \o <<"w", "w", "w", ".", "a", "p", "p", "l", "e", ".", "c", "o", "m", "/">>,
      https_ \o github \o <<"/", "l", "o", "g", "i", "n">>,
      https_ \o github \o <<"/", "l", "o", "g", "i", "n", "%", "2", "0">>,
      https_ \o github \o <<"/", "%", "2", "0">>,
      https_ \o github \o <<"/", "v", "1">>,
      https_ \o <<"a", ".", "b", ".", "c", ".", "d", ".">> \o github \o <<"/">>,
      https_ \o <<"e", "v", "i", "l", ".", "r", "u", "/", "x">>,
      https_ \o apple_ace \o <<"/", "l", "o", "g", "i", "n">>,
      https_ \o apple_ace \o <<"/", "%", "2", "0">>,
      https_ \o apple_cyr \o <<"/">>,
      https_ \o bitly \o <<"/", "a", "b", "c">>,
      http_ \o bitly \o <<"/", "a", "b", "c">>,
      http_ \o <<"[", "x", "/">>,
      https_ \o <<"e", "v", "i", "l", ".", "r", "u", "/", "t", ".", "c", "o">>,
      https_ \o github \o <<"/", "%", "2", "5", "2", "0">>,
      bitly \o <<"/", "l", "o", "g", "i", "n">>,
      <<"h", "e", "l", "l", "o">> }

\* The Location headers a redirect response can carry; None: no header
Locations ==
    { https_ \o github \o <<"/", "f", "o", "o">>,
      https_ \o apple_ace \o <<"/", "l", "o", "g", "i", "n">>,
      https_ \o <<"t", ".", "c", "o", "/", "a", "b", "c">>,
      http_ \o <<"e", "v", "i", "l", ".", "r", "u", "/", "x">>,
      <<"/", "n", "e", "x", "t">>,
      <<"/", "/", "[", "x">>,
      None }

\* What one requests.head call can do: raise a RequestException (a timeout,
\* a connection error), or return a response
Responses ==
    { [raises |-> TRUE, status_code |-> 0, location |-> None, message |-> <<"timed out">>] }
    \cup { [raises |-> FALSE, status_code |-> 200, location |-> None, message |-> <<>>] }
    \cup { [raises |-> FALSE, status_code |-> 302, location |-> l, message |-> <<>>] : l \in Locations }

----------------------------------------------------------------------------
(* State *)

VARIABLES
    input,           \* the content analyze_content was called with
    pc,              \* the position in analyze_content
    content,         \* analyze_content: the working content
    risks,           \* analyze_content: the accumulated risk strings
    risk_level,      \* analyze_content: the working severity
    final_url,       \* analyze_content: first value safely_resolve_url returned
    redirects,       \* analyze_content: second value safely_resolve_url returned
    error,           \* analyze_content: third value safely_resolve_url returned
    redirect_risks,  \* analyze_content: what analyze_redirect_chain returned
    domain_info,     \* analyze_content: the extractor's result
    domain,          \* analyze_content: "domain.suffix"
    e,               \* analyze_content: the exception caught at the top level
    result,          \* the dictionary returned
    url,             \* safely_resolve_url: the url argument
    current_url,     \* safely_resolve_url: the url of the next request
    redirect_chain,  \* safely_resolve_url: the urls requested so far
    hop,             \* safely_resolve_url: iterations of the for loop begun
    head_requests    \* the number of requests.head calls issued

vars == <<input, pc, content, risks, risk_level, final_url, redirects, error,
          redirect_risks, domain_info, domain, e, result,
          url, current_url, redirect_chain, hop, head_requests>>

analysis_vars == <<content, risks, risk_level, redirect_risks, domain_info, domain, e, result>>
returned_vars == <<final_url, redirects, error>>
resolver_vars == <<url, current_url, redirect_chain, hop, head_requests>>

\* result before analyze_content returns
NoResult == [content |-> None, risk_level |-> None, risks |-> NoList,
             is_malicious |-> FALSE, recommendation |-> "<None>"]

\* analyze_content(content) is entered: risks = [], risk_level = "LOW";
\* every other local is unbound (None, NoList, NoInfo)
Init ==
    /\ input \in Contents
    /\ content = input
    /\ pc = "parse"
    /\ risks = <<>>
    /\ risk_level = LOW
    /\ final_url = None /\ redirects = NoList /\ error = None
    /\ redirect_risks = NoList
    /\ domain_info = NoInfo /\ domain = None
    /\ e = None
    /\ result = NoResult
    /\ url = None /\ current_url = None /\ redirect_chain = NoList
    /\ hop = 0
    /\ head_requests = 0

\* except Exception as e: the error is recorded and the severity is UNKNOWN
Catch(exception) ==
    /\ e' = exception
    /\ risks' = Append(risks, <<"Error analyzing URL: ">> \o exception)
    /\ risk_level' = UNKNOWN
    /\ pc' = "return"

\* (mutant of in_range: one iteration too many)
in_range_inclusive(i, n) == i <= n

\* for _ in range(max_redirects): whether iteration i (from 0) takes place
in_range(i, n) == i < n

----------------------------------------------------------------------------
(* analyze_content, up to the shortlink resolution *)

\* urlparse raises: the top-level handler catches it
ParseRaises ==
    /\ pc = "parse"
    /\ urlparse(content).exc # None
    /\ Catch(urlparse(content).exc)
    /\ UNCHANGED <<input, content, redirect_risks, domain_info, domain, result>>
    /\ UNCHANGED returned_vars
    /\ UNCHANGED resolver_vars

\* (mutant of ParseNoScheme: the checks run on a content without scheme)
ParseNoScheme_checks ==
    /\ pc = "parse"
    /\ urlparse(content).exc = None
    /\ urlparse(content).scheme = <<>>
    /\ pc' = "classify"
    /\ UNCHANGED <<input, returned_vars, resolver_vars, analysis_vars>>

\* no scheme: every check is skipped
ParseNoScheme ==
    /\ pc = "parse"
    /\ urlparse(content).exc = None
    /\ urlparse(content).scheme = <<>>
    /\ pc' = "return"
    /\ UNCHANGED <<input, returned_vars, resolver_vars, analysis_vars>>

\* a scheme and a shortener domain: safely_resolve_url(content) is entered
ParseShortlink ==
    /\ pc = "parse"
    /\ urlparse(content).exc = None
    /\ urlparse(content).scheme # <<>>
    /\ is_shortlink(content)
    /\ url' = content
    /\ current_url' = content
    /\ redirect_chain' = <<>>
    /\ hop' = 0
    /\ pc' = "resolve"
    /\ UNCHANGED <<input, head_requests, returned_vars, analysis_vars>>

\* a scheme and any other domain: straight to the checks
ParseUrl ==
    /\ pc = "parse"
    /\ urlparse(content).exc = None
    /\ urlparse(content).scheme # <<>>
    /\ ~is_shortlink(content)
    /\ pc' = "classify"
    /\ UNCHANGED <<input, returned_vars, resolver_vars, analysis_vars>>

----------------------------------------------------------------------------
(* safely_resolve_url: one iteration of the loop per action *)

\* return current_url, redirect_chain, None / return None, redirect_chain, message
Return3(f, chain, err) ==
    /\ final_url' = f
    /\ redirects' = chain
    /\ error' = err
    /\ pc' = "resolved"

\* (mutant of HeadRaises: the URL whose request failed is left out of the
\* returned chain)
HeadRaises_drops_failed ==
    /\ pc = "resolve"
    /\ in_range(hop, max_redirects)
    /\ \E r \in Responses :
        /\ r.raises
        /\ redirect_chain' = redirect_chain
        /\ head_requests' = head_requests + 1
        /\ Return3(None, redirect_chain', <<"Error resolving URL: ">> \o r.message)
    /\ hop' = hop + 1
    /\ UNCHANGED <<input, url, current_url, analysis_vars>>

\* requests.head raises: the chain so far, with the url whose request failed
HeadRaises ==
    /\ pc = "resolve"
    /\ in_range(hop, max_redirects)
    /\ \E r \in Responses :
        /\ r.raises
        /\ redirect_chain' = Append(redirect_chain, current_url)
        /\ head_requests' = head_requests + 1
        /\ Return3(None, redirect_chain', <<"Error resolving URL: ">> \o r.message)
    /\ hop' = hop + 1
    /\ UNCHANGED <<input, url, current_url, analysis_vars>>

\* the status is no redirect: break
HeadFinal ==
    /\ pc = "resolve"
    /\ in_range(hop, max_redirects)
    /\ \E r \in Responses :
        /\ ~r.raises
        /\ r.status_code \notin redirect_codes
        /\ redirect_chain' = Append(redirect_chain, current_url)
        /\ head_requests' = head_requests + 1
        /\ Return3(current_url, redirect_chain', None)
    /\ hop' = hop + 1
    /\ UNCHANGED <<input, url, current_url, analysis_vars>>

\* urljoin is called on this Location header and raises
JoinRaises(location) ==
    /\ Truthy(location)
    /\ ~startswith(location, http_)
    /\ ~startswith(location, https_)
    /\ urljoin_exc(url, location) # None

\* a redirect whose Location urljoin cannot parse: the ValueError is no
\* RequestException, leaves safely_resolve_url and is caught at the top
\* level of analyze_content
HeadRedirectRaises ==
    /\ pc = "resolve"
    /\ in_range(hop, max_redirects)
    /\ \E r \in Responses :
        /\ ~r.raises
        /\ r.status_code \in redirect_codes
        /\ JoinRaises(r.location)
        /\ redirect_chain' = Append(redirect_chain, current_url)
        /\ head_requests' = head_requests + 1
        /\ Catch(urljoin_exc(url, r.location))
    /\ hop' = hop + 1
    /\ UNCHANGED <<input, url, current_url, content, redirect_risks, domain_info, domain, result>>
    /\ UNCHANGED returned_vars

\* a redirect: the Location header becomes current_url, joined to url when
\* it is not an http(s) url; with no Location the loop breaks
HeadRedirect ==
    /\ pc = "resolve"
    /\ in_range(hop, max_redirects)
    /\ \E r \in Responses :
        /\ ~r.raises
        /\ r.status_code \in redirect_codes
        /\ ~JoinRaises(r.location)
        /\ redirect_chain' = Append(redirect_chain, current_url)
        /\ head_requests' = head_requests + 1
        /\ current_url' =
              IF /\ Truthy(r.location)
                 /\ ~startswith(r.location, http_)
                 /\ ~startswith(r.location, https_)
              THEN urljoin(url, r.location)
              ELSE r.location
        /\ IF ~Truthy(current_url')
           THEN Return3(current_url', redirect_chain', None)
           ELSE pc' = "resolve" /\ UNCHANGED returned_vars
    /\ hop' = hop + 1
    /\ UNCHANGED <<input, url, analysis_vars>>

\* the loop has run max_redirects times
LoopEnds ==
    /\ pc = "resolve"
    /\ ~in_range(hop, max_redirects)
    /\ Return3(current_url, redirect_chain, None)
    /\ UNCHANGED <<input, resolver_vars, analysis_vars>>

----------------------------------------------------------------------------
(* analyze_content, after the resolution *)

\* if error: ... else: ...; working is what the else branch assigns to content
AfterResolution(working) ==
    /\ pc = "resolved"
    /\ IF Truthy(error)
       THEN /\ risks' = Append(risks, <<"Error resolving shortened URL: ">> \o error)
            /\ risk_level' = HIGH
            /\ UNCHANGED <<redirect_risks, content>>
       ELSE /\ redirect_risks' = analyze_redirect_chain(redirects)
            /\ risk_level' = IF redirect_risks' # <<>> THEN HIGH ELSE risk_level
            /\ content' = working
            /\ risks' = Append(risks \o redirect_risks',
                               <<"URL redirect chain: ">> \o str_join(<<" ", "-", ">", " ">>, redirects))
    /\ pc' = "classify"
    /\ UNCHANGED <<input, domain_info, domain, e, result, returned_vars, resolver_vars>>

\* (mutant of ShortlinkResolved: the working content stays the shortlink)
ShortlinkResolved_keeps_content == AfterResolution(content)

\* lines 126-137: content = final_url
ShortlinkResolved == AfterResolution(final_url)

\* (mutant of ClassifyRaises: the exception leaves analyze_content)
ClassifyPropagates ==
    /\ pc = "classify"
    /\ content = None
    /\ pc' = "raised"
    /\ UNCHANGED <<input, returned_vars, resolver_vars, analysis_vars>>

\* domain_info = tldextract.extract(content); domain = "domain.suffix"
Classify ==
    /\ pc = "classify"
    /\ content # None
    /\ domain_info' = tldextract_extract(content)
    /\ domain' = domain_info'.domain \o <<".">> \o domain_info'.suffix
    /\ pc' = "homoglyphs"
    /\ UNCHANGED <<input, content, risks, risk_level, redirect_risks, e, result>>
    /\ UNCHANGED <<returned_vars, resolver_vars>>

\* the extractor is given None (a redirect without a Location header): it
\* raises, and the top-level handler catches it
ClassifyRaises ==
    /\ pc = "classify"
    /\ content = None
    /\ Catch(<<"'NoneType' object has no attribute 'find'">>)
    /\ UNCHANGED <<input, content, redirect_risks, domain_info, domain, result>>
    /\ UNCHANGED <<returned_vars, resolver_vars>>

\* One check of the sequence: when fires, entries are appended and the
\* severity becomes level; then the next check
Check(at, fires, entries, level, next) ==
    /\ pc = at
    /\ risks' = IF fires THEN risks \o entries ELSE risks
    /\ risk_level' = IF fires THEN level ELSE risk_level
    /\ pc' = next
    /\ UNCHANGED <<input, content, redirect_risks, domain_info, domain, e, result>>
    /\ UNCHANGED <<returned_vars, resolver_vars>>

\* if contains_homoglyphs(content): ...
CheckHomoglyphs ==
    Check("homoglyphs", contains_homoglyphs(content),
          << <<"URL contains visually similar characters (homoglyphs)">> >>,
          py_max(risk_level, MEDIUM), "unknown_domain")

\* (mutant of CheckUnknownDomain: the whole host name is looked up)
CheckUnknownDomain_host ==
    Check("unknown_domain", lenient_netloc(content) \notin safe_domains,
          << <<"Unknown domain: ">> \o domain >>,
          py_max(risk_level, MEDIUM), "homograph")

\* if domain not in safe_domains: ...
CheckUnknownDomain ==
    Check("unknown_domain", domain \notin safe_domains,
          << <<"Unknown domain: ">> \o domain >>,
          py_max(risk_level, MEDIUM), "homograph")

\* if detect_homograph_attack(domain): ...
CheckHomograph ==
    Check("homograph", detect_homograph_attack(domain),
          << <<"Suspicious homograph attack detected in domain: ">> \o domain >>,
          HIGH, "patterns")

\* for pattern in suspicious_patterns: if re.search(pattern, content): ...
CheckPatterns ==
    Check("patterns", pattern_risks(suspicious_patterns, content) # <<>>,
          pattern_risks(suspicious_patterns, content),
          HIGH, "encoded")

\* (mutant of CheckEncoded: the entry is recorded once per decoding pass)
CheckEncoded_twice ==
    Check("encoded", unquote(content) # content,
          << <<"URL contains encoded characters">>,
             <<"URL contains encoded characters">> >>,
          py_max(risk_level, MEDIUM), "subdomains")

\* decoded_url = urllib.parse.unquote(content); if decoded_url != content: ...
CheckEncoded ==
    Check("encoded", unquote(content) # content,
          << <<"URL contains encoded characters">> >>,
          py_max(risk_level, MEDIUM), "subdomains")

\* if len(domain_info.subdomain.split('.')) > 3: ...
CheckSubdomains ==
    Check("subdomains", Len(str_split(domain_info.subdomain, ".")) > 3,
          << <<"Suspicious number of subdomains">> >>,
          HIGH, "return")

\* return {...}
Return ==
    /\ pc = "return"
    /\ result' = analysis_result(content, risk_level, risks)
    /\ pc' = "done"
    /\ UNCHANGED <<input, content, risks, risk_level, redirect_risks, domain_info, domain, e>>
    /\ UNCHANGED <<returned_vars, resolver_vars>>

Next ==
    \/ ParseRaises \/ ParseNoScheme \/ ParseShortlink \/ ParseUrl
    \/ HeadRaises \/ HeadFinal \/ HeadRedirect \/ HeadRedirectRaises \/ LoopEnds
    \/ ShortlinkResolved
    \/ Classify \/ ClassifyRaises
    \/ CheckHomoglyphs \/ CheckUnknownDomain \/ CheckHomograph
    \/ CheckPatterns \/ CheckEncoded \/ CheckSubdomains
    \/ Return

Spec == Init /\ [][Next]_vars

----------------------------------------------------------------------------
(* Properties *)

\* The designed order of the severities: LOW < MEDIUM < HIGH
SeverityRank(level) == IF level = LOW THEN 0 ELSE IF level = MEDIUM THEN 1 ELSE 2

Graded(level) == level \in {LOW, MEDIUM, HIGH}

\* Some entry of the list rs starts with the fixed text prefix
HasRisk(rs, prefix) == \E i \in 1..Len(rs) : rs[i][1] = prefix

\* The first fragments of the entries the HIGH-escalating checks append
HighFindings ==
    { "Suspicious number of redirects: ", "Mixed HTTP/HTTPS redirects detected",
      "Multiple country domains in redirect chain: ",
      "Suspicious homograph attack detected in domain: ",
      "Suspicious pattern found: ", "Suspicious number of subdomains" }

Returned == pc = "done"

\* C1: within one analyze_content call no step of the check sequence lowers
\* the working severity in the order LOW < MEDIUM < HIGH.
C1_SeverityNeverDecreases ==
    [][(Graded(risk_level) /\ Graded(risk_level'))
            => SeverityRank(risk_level') >= SeverityRank(risk_level)]_vars

\* C2: when the resolution of a shortlink fails with an error, the result is
\* HIGH, BLOCK and malicious, and its risks hold an "Error resolving
\* shortened URL" entry.
C2_ResolutionErrorIsHigh ==
    (Returned /\ Truthy(error))
        => /\ result.risk_level = HIGH
           /\ result.recommendation = "BLOCK"
           /\ result.is_malicious
           /\ HasRisk(result.risks, "Error resolving shortened URL: ")

\* C3: when a HIGH-escalating check fired (a redirect-chain finding, a
\* homograph domain, a suspicious pattern, more than 3 subdomain labels) and
\* the call did not take the catch-all path, the result is HIGH, malicious
\* and BLOCK.
C3_HighFindingGivesHigh ==
    (Returned /\ e = None /\ \E f \in HighFindings : HasRisk(result.risks, f))
        => /\ result.risk_level = HIGH
           /\ result.is_malicious
           /\ result.recommendation = "BLOCK"

\* C4: a result whose risk_level is UNKNOWN recommends WARN or BLOCK, never
\* ALLOW.
C4_UnknownAtLeastWarn ==
    (Returned /\ result.risk_level = UNKNOWN) => result.recommendation \in {"WARN", "BLOCK"}

\* The positions of analyze_content: inside its body, or returned.  An
\* exception that leaves the call leaves these positions.
Positions ==
    { "parse", "resolve", "resolved", "classify", "homoglyphs", "unknown_domain",
      "homograph", "patterns", "encoded", "subdomains", "return", "done" }

\* C5: analyze_content never raises: no exception leaves the call (a step
\* that raises is caught and the call goes on to its return), the result is
\* UNKNOWN exactly when an exception was caught, and its risks then hold the
\* "Error analyzing URL" entry of that exception.
C5_FailuresBecomeUnknown ==
    /\ pc \in Positions
    /\ e # None => pc \in {"return", "done"}
    /\ Returned =>
        /\ (result.risk_level = UNKNOWN) <=> (e # None)
        /\ e # None => \E i \in 1..Len(result.risks) :
                            result.risks[i] = <<"Error analyzing URL: ">> \o e

C5_Witness ==
    /\ Returned
    /\ e # None
    /\ error = None /\ final_url = None /\ redirects # NoList
    /\ result.risk_level = UNKNOWN

\* C6: whatever the remote hosts answer, safely_resolve_url issues at most
\* max_redirects HEAD requests and returns a chain of at most
\* max_redirects + 1 entries whose first entry is the original url.
C6_BoundedResolution ==
    /\ head_requests <= max_redirects
    /\ redirects # NoList =>
        /\ Len(redirects) <= max_redirects + 1
        /\ redirects[1] = url
        /\ url = input

C6_Witness ==
    /\ pc = "resolved"
    /\ head_requests = max_redirects
    /\ Len(redirects) = max_redirects
    /\ Truthy(final_url) /\ error = None

\* C7: recommendation and is_malicious are determined by the final
\* risk_level: HIGH gives BLOCK, MEDIUM gives WARN, LOW gives ALLOW, and
\* is_malicious holds exactly for HIGH (so BLOCK exactly when malicious).
C7_ActionFollowsSeverity ==
    Returned =>
        /\ result.risk_level = risk_level
        /\ result.risk_level = HIGH => result.recommendation = "BLOCK"
        /\ result.risk_level = MEDIUM => result.recommendation = "WARN"
        /\ result.risk_level = LOW => result.recommendation = "ALLOW"
        /\ result.is_malicious <=> (result.risk_level = HIGH)
        /\ (result.recommendation = "BLOCK") <=> result.is_malicious

C7_Witness ==
    /\ Returned
    /\ result.risk_level = MEDIUM
    /\ result.recommendation = "WARN"
    /\ ~result.is_malicious

\* The content is a URL on a trusted, non-shortener domain on which no
\* check fires
TrustedAndClean(c) ==
    LET info == tldextract_extract(c) IN
    /\ urlparse(c).exc = None
    /\ urlparse(c).scheme # <<>>
    /\ registered_domain(info) \notin url_shorteners
    /\ registered_domain(info) \in safe_domains
    /\ ~contains_homoglyphs(c)
    /\ ~detect_homograph_attack(registered_domain(info))
    /\ \A k \in 1..Len(suspicious_patterns) : ~re_search(suspicious_patterns[k], c)
    /\ unquote(c) = c
    /\ Len(str_split(info.subdomain, ".")) <= 3

\* C8: for a content with a scheme, on a trusted domain that is no
\* shortener, and on which no homoglyph, homograph, pattern, encoding or
\* subdomain check fires, the result is LOW, ALLOW, without risks, and its
\* content is the input.
C8_TrustedUrlIsAllowed ==
    (Returned /\ TrustedAndClean(input))
        => /\ result.risk_level = LOW
           /\ result.recommendation = "ALLOW"
           /\ result.risks = <<>>
           /\ result.content = input

C8_Witness ==
    /\ Returned
    /\ TrustedAndClean(input)
    /\ tldextract_extract(input).subdomain # <<>>
    /\ result.risk_level = LOW

\* C9: after a shortlink is resolved without error the working content is
\* the resolved final URL: the classification is that of the final URL, the
\* result's content is the final URL, and a final URL with a homograph
\* domain and the path /login gives HIGH and BLOCK with a homograph entry
\* and the entry of the login pattern.
C9_ChecksRunOnFinalUrl ==
    (redirects # NoList /\ ~Truthy(error) /\ pc # "resolved") =>
        /\ content = final_url
        /\ domain_info # NoInfo =>
            /\ domain_info = tldextract_extract(final_url)
            /\ domain = registered_domain(tldextract_extract(final_url))
        /\ Returned => result.content = final_url
        /\ ( /\ Returned
             /\ e = None
             /\ detect_homograph_attack(registered_domain(tldextract_extract(final_url)))
             /\ urlparse(final_url).path = <<"/", "l", "o", "g", "i", "n">> )
           => /\ result.risk_level = HIGH
              /\ result.recommendation = "BLOCK"
              /\ HasRisk(result.risks, "Suspicious homograph attack detected in domain: ")
              /\ \E i \in 1..Len(result.risks) :
                    result.risks[i] = <<"Suspicious pattern found: ", "(?i)login">>

C9_Witness ==
    /\ Returned
    /\ input = https_ \o bitly \o <<"/", "a", "b", "c">>
    /\ final_url = https_ \o apple_ace \o <<"/", "l", "o", "g", "i", "n">>
    /\ redirects = <<input, final_url>>
    /\ result.content = final_url
    /\ result.risk_level = HIGH

\* C10: analyze_redirect_chain reports each of its three findings exactly
\* when that finding's rule holds of the chain (more than 3 entries; an
\* http:// entry and an https:// entry; more than 2 distinct suffixes), and
\* so reports nothing for a chain of at most 3 https:// entries with at
\* most 2 distinct suffixes.
C10_ChainRulesIndependent ==
    redirect_risks # NoList =>
        LET n        == Len(redirects)
            long     == n > 3
            mixed    == /\ \E i \in 1..n : startswith(redirects[i], http_)
                        /\ \E i \in 1..n : startswith(redirects[i], https_)
            suffixes == {tldextract_extract(redirects[i]).suffix : i \in 1..n}
            many     == Cardinality(suffixes) > 2
            count(b) == IF b THEN 1 ELSE 0
        IN  /\ HasRisk(redirect_risks, "Suspicious number of redirects: ") <=> long
            /\ HasRisk(redirect_risks, "Mixed HTTP/HTTPS redirects detected") <=> mixed
            /\ HasRisk(redirect_risks, "Multiple country domains in redirect chain: ") <=> many
            /\ Len(redirect_risks) = count(long) + count(mixed) + count(many)
            /\ ( /\ n <= 3
                 /\ \A i \in 1..n : startswith(redirects[i], https_)
                 /\ Cardinality(suffixes) <= 2 )
               => redirect_risks = <<>>

C10_Witness ==
    /\ redirect_risks = <<>>
    /\ Len(redirects) = 3
    /\ \A i \in 1..3 : startswith(redirects[i], https_)
    /\ Cardinality({tldextract_extract(redirects[i]).suffix : i \in 1..3}) = 2

\* C11: a content without URL scheme skips every URL check: no request is
\* issued, and the result is LOW, without risks, not malicious, ALLOW, with
\* the content unchanged.
C11_NoSchemeSkipsChecks ==
    (urlparse(input).exc = None /\ url_scheme(input) = <<>>) =>
        /\ head_requests = 0
        /\ pc \in {"parse", "return", "done"}
        /\ risks = <<>> /\ risk_level = LOW /\ content = input
        /\ Returned =>
            /\ result.risk_level = LOW
            /\ result.risks = <<>>
            /\ ~result.is_malicious
            /\ result.recommendation = "ALLOW"
            /\ result.content = input

C11_Witness ==
    /\ Returned
    /\ input = bitly \o <<"/", "l", "o", "g", "i", "n">>
    /\ url_scheme(input) = <<>>
    /\ result.recommendation = "ALLOW"

\* The first fragments of the entries only the shortlink branch appends
ResolutionEntries ==
    { "Error resolving shortened URL: ", "URL redirect chain: ",
      "Suspicious number of redirects: ", "Mixed HTTP/HTTPS redirects detected",
      "Multiple country domains in redirect chain: " }

\* C12: for a content whose registrable domain is not in the shortener set
\* no HEAD request is issued, safely_resolve_url is not entered, no
\* redirect-chain or resolution-error entry is recorded, and the result's
\* content is the input.
C12_OnlyShortenersAreResolved ==
    (registered_domain(tldextract_extract(input)) \notin url_shorteners) =>
        /\ head_requests = 0
        /\ url = None /\ redirects = NoList /\ error = None
        /\ content = input
        /\ \A f \in ResolutionEntries : ~HasRisk(risks, f)
        /\ Returned =>
            /\ result.content = input
            /\ \A f \in ResolutionEntries : ~HasRisk(result.risks, f)

C12_Witness ==
    /\ Returned
    /\ input = https_ \o <<"e", "v", "i", "l", ".", "r", "u", "/", "t", ".", "c", "o">>
    /\ head_requests = 0
    /\ result.content = input
    /\ result.risk_level = MEDIUM

\* The look-alike characters listed in homoglyph_map: thirteen Cyrillic
\* letters and the digit one
Confusables ==
    { "U+0430", "U+042C", "U+0431", "U+0441", "U+0435", "U+043D", "U+0456", "1",
      "U+043E", "U+0440", "U+0455", "U+0442", "U+0445", "U+0443" }

\* The texts the call has handed to contains_homoglyphs so far: the working
\* content, and the decoded domain
HomoglyphSubjects ==
    (IF content # None THEN {content} ELSE {})
    \cup (IF domain # None
          THEN {IF idna_decode(domain) = None THEN domain ELSE idna_decode(domain)}
          ELSE {})

\* C13: contains_homoglyphs is true of every text that holds a look-alike of
\* homoglyph_map and false of every pure-ASCII text that holds none; the
\* homoglyph entry of the analysis is recorded accordingly.
C13_HomoglyphsDetected ==
    /\ \A t \in HomoglyphSubjects :
        /\ (Range(t) \cap Confusables # {}) => contains_homoglyphs(t)
        /\ (Range(t) \subseteq Range(printable) /\ Range(t) \cap Confusables = {})
                => ~contains_homoglyphs(t)
    /\ pc = "unknown_domain" =>
        (HasRisk(risks, "URL contains visually similar characters (homoglyphs)")
            <=> (Range(content) \cap Confusables # {}))

C13_Witness ==
    /\ pc = "unknown_domain"
    /\ input = https_ \o github \o <<"/", "v", "1">>
    /\ Range(content) \subseteq Range(printable)
    /\ HasRisk(risks, "URL contains visually similar characters (homoglyphs)")

\* Number of occurrences of entry in the list rs
Count(rs, entry) == Cardinality({ i \in 1..Len(rs) : rs[i] = entry })

EncodedEntry == <<"URL contains encoded characters">>

\* C14: the entry "URL contains encoded characters" never occurs twice in a
\* list of risks; in the result of a call that parsed a scheme and did not
\* fail it occurs once when percent-decoding changes the working URL, whether
\* or not a second decoding pass changes it further, and not at all when
\* decoding leaves the working URL as it is.
C14_EncodedRecordedOnce ==
    /\ Count(risks, EncodedEntry) <= 1
    /\ Returned => Count(result.risks, EncodedEntry) <= 1
    /\ (Returned /\ e = None /\ url_scheme(input) # <<>>) =>
        Count(result.risks, EncodedEntry)
            = (IF unquote(content) # content THEN 1 ELSE 0)

C14_Witness ==
    /\ Returned /\ e = None
    /\ input = https_ \o github \o <<"/", "%", "2", "0">>
    /\ unquote(content) # content
    /\ unquote(unquote(content)) = unquote(content)
    /\ Count(result.risks, EncodedEntry) = 1

\* A Location header that safely_resolve_url hands to urljoin
Relative(location) ==
    /\ Truthy(location)
    /\ ~startswith(location, http_)
    /\ ~startswith(location, https_)

\* C15: the URL requested after a redirect at hop k is the Location header
\* itself when it is absolute, and a relative Location header joined to the
\* URL requested at hop k (the last entry of the chain), never to another URL.
C15_RelativeJoinsPreviousHop ==
    [][(pc = "resolve" /\ pc' = "resolve" /\ hop' = hop + 1) =>
            \E r \in Responses :
                /\ ~r.raises
                /\ r.status_code \in redirect_codes
                /\ current_url' = IF Relative(r.location)
                                  THEN urljoin(current_url, r.location)
                                  ELSE r.location]_vars

\* C16: when safely_resolve_url has returned without an error, the final URL
\* it returned is the last entry of the chain it returned, also when every
\* iteration of the loop ended in a redirect.  (Stated for a final URL that is
\* a URL; the return of no final URL at all is the subject of C19.)
C16_FinalUrlEndsChain ==
    (redirects # NoList /\ error = None /\ Truthy(final_url))
        => final_url = redirects[Len(redirects)]

\* C17: once a HEAD request has failed, resolution is over: the call has
\* returned no final URL, an error text, and the chain up to and including the
\* URL whose request failed, and no HEAD request is issued afterwards (the
\* number of requests stays the number of chain entries, one per request).
C17_FailureEndsResolution ==
    Truthy(error) =>
        /\ final_url = None
        /\ startswith(error, <<"Error resolving URL: ">>)
        /\ redirects # NoList
        /\ redirects = redirect_chain
        /\ Len(redirects) >= 1
        /\ redirects[Len(redirects)] = current_url
        /\ head_requests = Len(redirects)
        /\ pc # "resolve"

C17_Witness ==
    /\ Returned
    /\ Truthy(error)
    /\ head_requests = 3
    /\ Len(redirects) = 3
    /\ redirects[3] # redirects[1]

\* The entries recorded by the three checks that escalate to MEDIUM
MediumEntries ==
    { "URL contains visually similar characters (homoglyphs)",
      "Unknown domain: ", "URL contains encoded characters" }

\* One of the three MEDIUM-escalating conditions is true of the call's
\* working content
MediumCheckFires ==
    \/ contains_homoglyphs(content)
    \/ domain \notin safe_domains
    \/ unquote(content) # content

\* C18: in a call that parsed a scheme and did not take the except branch,
\* when a homoglyph is in the content, or the registrable domain is not a
\* trusted one, or percent-decoding changes the URL, the returned risk_level
\* is MEDIUM or HIGH (not LOW, not UNKNOWN) and the recommendation is WARN or
\* BLOCK.
C18_MediumChecksEscalate ==
    (Returned /\ e = None /\ url_scheme(input) # <<>>
        /\ (MediumCheckFires
            \/ \E p \in MediumEntries : HasRisk(result.risks, p)))
    => /\ result.risk_level \in {MEDIUM, HIGH}
       /\ result.recommendation \in {"WARN", "BLOCK"}
       /\ \E p \in MediumEntries : HasRisk(result.risks, p)

C18_Witness ==
    /\ Returned /\ e = None
    /\ input = https_ \o github \o <<"/", "%", "2", "0">>
    /\ domain \in safe_domains
    /\ ~contains_homoglyphs(content)
    /\ unquote(content) # content
    /\ result.risk_level = MEDIUM
    /\ result.recommendation = "WARN"

\* C19: when safely_resolve_url has returned with no error its final URL is
\* not null, also after a redirect response without a Location header; so a
\* resolution without error never leaves the analysis with a null working
\* content, and never ends in the UNKNOWN of the except branch through it.
C19_NoErrorGivesFinalUrl ==
    (redirects # NoList /\ error = None) =>
        /\ final_url # None
        /\ pc \notin {"parse", "resolve", "resolved"} => content # None
        /\ (Returned /\ e # None) => content # None

====
